---- MODULE Spec2Model ----
(***************************************************************************)
(* Model of the text-normalisation interception layer of                   *)
(* src/app/layout.tsx (the inline script of lines 158-218): the gate       *)
(* initS2T, the URL transform convertUrl and the four wrappers installed   *)
(* over fetch, XMLHttpRequest.prototype.open, history.pushState and        *)
(* history.replaceState.                                                   *)
(*                                                                         *)
(* A JavaScript string is a sequence of UTF-16 code units (naturals).      *)
(* A JavaScript value is a record [t, s]: t is the type tag and s the code *)
(* units of a string (empty for every other type).                         *)
(***************************************************************************)
EXTENDS Naturals, Integers, Sequences, FiniteSets, TLC

\* ------------------------------------------------------------------ bounds
\* A URL argument is a concatenation of at most MaxSegs segments of Segments.
MaxSegs == 2
\* The application calls a dispatch point with 0..MaxArity arguments.
MaxArity == 4
\* The counter of failed gate checks saturates at MaxChecks.
MaxChecks == 2
\* The simulated re-run of the installer body happens at most MaxReruns times.
MaxReruns == 1

\* ------------------------------------------------------ JavaScript values
StrV(s) == [t |-> "string", s |-> s]
Undefined == [t |-> "undefined", s |-> << >>]
Null == [t |-> "null", s |-> << >>]
Zero == [t |-> "number", s |-> << >>]
RequestObj == [t |-> "object", s |-> << >>]

\* typeof v === 'string'
IsString(v) == v.t = "string"

\* Mutant: the guard tests url == null instead of !url, so the empty string
\* is not passed through.
FalsyNullOnly(v) == v.t \in {"undefined", "null"}

\* !v : the values of the model that JavaScript treats as false
Falsy(v) == \/ v.t \in {"undefined", "null", "number"}
            \/ (v.t = "string" /\ v.s = << >>)

\* --------------------------------------------------- code-unit classes
\* 0-9 A-F a-f
IsHex(c) == (c >= 48 /\ c <= 57) \/ (c >= 65 /\ c <= 70) \/ (c >= 97 /\ c <= 102)

HexVal(c) == IF c <= 57 THEN c - 48 ELSE IF c <= 70 THEN c - 55 ELSE c - 87

\* one hexadecimal digit 0..15 as an upper-case code unit
HexDigit(d) == IF d < 10 THEN 48 + d ELSE 55 + d

\* uriReserved plus "#":  ; / ? : @ & = + $ , #
UriReservedPlusHash == {59, 47, 63, 58, 64, 38, 61, 43, 36, 44, 35}

\* uriUnescaped: letters, digits and  - _ . ! ~ * ' ( )
UriUnescaped == (48 .. 57) \cup (65 .. 90) \cup (97 .. 122)
                \cup {45, 95, 46, 33, 126, 42, 39, 40, 41}

\* ------------------------------------------------------------ decodeURI
\* The result of a step that may throw: err = TRUE stands for the exception.
Thrown == [err |-> TRUE, s |-> << >>]
Ok(s) == [err |-> FALSE, s |-> s]

\* number of leading 1 bits of the octet b (0, 1, 2, 3, 4, or 5 for "more")
LeadingOnes(b) ==
  IF b < 128 THEN 0
  ELSE IF b < 192 THEN 1
  ELSE IF b < 224 THEN 2
  ELSE IF b < 240 THEN 3
  ELSE IF b < 248 THEN 4
  ELSE 5

\* the octet written %XY at position k of s, or -1 when s has no escape there
OctetAt(s, k) ==
  IF k + 2 <= Len(s) /\ s[k] = 37 /\ IsHex(s[k + 1]) /\ IsHex(s[k + 2])
  THEN 16 * HexVal(s[k + 1]) + HexVal(s[k + 2])
  ELSE -1

\* the n octets whose escapes start at position k of s
Octets(s, k, n) == [i \in 1 .. n |-> OctetAt(s, k + 3 * (i - 1))]

\* the value the octets os (2, 3 or 4 of them) carry as a UTF-8 sequence
Utf8Value(os) ==
  IF Len(os) = 2 THEN (os[1] - 192) * 64 + (os[2] - 128)
  ELSE IF Len(os) = 3
    THEN (os[1] - 224) * 4096 + (os[2] - 128) * 64 + (os[3] - 128)
  ELSE (os[1] - 240) * 262144 + (os[2] - 128) * 4096
       + (os[3] - 128) * 64 + (os[4] - 128)

\* v when it is a code point whose shortest UTF-8 encoding has n octets, else -1
Utf8Range(n, v) ==
  IF v < (IF n = 2 THEN 128 ELSE IF n = 3 THEN 2048 ELSE 65536) THEN -1
  ELSE IF v > 1114111 \/ (v >= 55296 /\ v <= 57343) THEN -1
  ELSE v

\* the code point the octets os encode, or -1 when they are not valid UTF-8
Utf8Check(os) ==
  IF \E i \in 2 .. Len(os) : os[i] < 128 \/ os[i] >= 192 THEN -1
  ELSE Utf8Range(Len(os), Utf8Value(os))

\* the code point of the n-octet UTF-8 sequence whose escapes start at k,
\* or -1 when the octets are not the UTF-8 encoding of a code point
Utf8CodePoint(s, k, n) ==
  IF k + 3 * n - 1 > Len(s) THEN -1 ELSE Utf8Check(Octets(s, k, n))

\* the UTF-16 code units of the code point v
Utf16Encode(v) ==
  IF v < 65536 THEN << v >>
  ELSE << 55296 + ((v - 65536) \div 1024), 56320 + ((v - 65536) % 1024) >>

RECURSIVE DecodeFrom(_, _, _)
\* the escape at k starts n octets that encode the code point v (-1: none)
DecodeMulti(s, k, acc, n, v) ==
  IF v = -1 THEN Thrown ELSE DecodeFrom(s, k + 3 * n, acc \o Utf16Encode(v))

\* position k of s holds "%"; b is the octet of the escape there (-1: none)
DecodeEscape(s, k, acc, b) ==
  IF b = -1 THEN Thrown
  ELSE IF b < 128
    THEN IF b \in UriReservedPlusHash
           THEN DecodeFrom(s, k + 3, acc \o SubSeq(s, k, k + 2))
           ELSE DecodeFrom(s, k + 3, Append(acc, b))
  ELSE IF b < 192 \/ b >= 248 THEN Thrown
  ELSE DecodeMulti(s, k, acc, LeadingOnes(b), Utf8CodePoint(s, k, LeadingOnes(b)))

DecodeFrom(s, k, acc) ==
  IF k > Len(s) THEN Ok(acc)
  ELSE IF s[k] # 37 THEN DecodeFrom(s, k + 1, Append(acc, s[k]))
  ELSE DecodeEscape(s, k, acc, OctetAt(s, k))

\* decodeURI(s): every escape decoded except those of the reserved set
decodeURI(s) == DecodeFrom(s, 1, << >>)

\* ------------------------------------------------------------ encodeURI
\* %XY for the octet b
Escape(b) == << 37, HexDigit(b \div 16), HexDigit(b % 16) >>

\* the UTF-8 octets of the code point v
Utf8Octets(v) ==
  IF v < 128 THEN << v >>
  ELSE IF v < 2048 THEN << 192 + (v \div 64), 128 + (v % 64) >>
  ELSE IF v < 65536
    THEN << 224 + (v \div 4096), 128 + ((v \div 64) % 64), 128 + (v % 64) >>
  ELSE << 240 + (v \div 262144), 128 + ((v \div 4096) % 64),
          128 + ((v \div 64) % 64), 128 + (v % 64) >>

RECURSIVE EscapeAll(_)
EscapeAll(os) ==
  IF os = << >> THEN << >> ELSE Escape(Head(os)) \o EscapeAll(Tail(os))

\* the escapes of the UTF-8 octets of the code point v
Utf8Escapes(v) == EscapeAll(Utf8Octets(v))

IsHighSurrogate(c) == c >= 55296 /\ c <= 56319
IsLowSurrogate(c) == c >= 56320 /\ c <= 57343

\* the code point of the surrogate pair hi, lo
PairCodePoint(hi, lo) == 65536 + (hi - 55296) * 1024 + (lo - 56320)

RECURSIVE EncodeFrom(_, _, _)
EncodeFrom(s, k, acc) ==
  IF k > Len(s) THEN Ok(acc)
  ELSE IF s[k] \in UriReservedPlusHash \cup UriUnescaped
    THEN EncodeFrom(s, k + 1, Append(acc, s[k]))
  ELSE IF IsLowSurrogate(s[k]) THEN Thrown
  ELSE IF ~IsHighSurrogate(s[k])
    THEN EncodeFrom(s, k + 1, acc \o Utf8Escapes(s[k]))
  ELSE IF k + 1 <= Len(s) /\ IsLowSurrogate(s[k + 1])
    THEN EncodeFrom(s, k + 2, acc \o Utf8Escapes(PairCodePoint(s[k], s[k + 1])))
  ELSE Thrown

\* Mutant: encodeURIComponent is called instead of encodeURI, so the reserved
\* characters and "#" are escaped too.
RECURSIVE EncodeComponentFrom(_, _, _)
EncodeComponentFrom(s, k, acc) ==
  IF k > Len(s) THEN Ok(acc)
  ELSE IF s[k] \in UriUnescaped
    THEN EncodeComponentFrom(s, k + 1, Append(acc, s[k]))
  ELSE IF IsLowSurrogate(s[k]) THEN Thrown
  ELSE IF ~IsHighSurrogate(s[k])
    THEN EncodeComponentFrom(s, k + 1, acc \o Utf8Escapes(s[k]))
  ELSE IF k + 1 <= Len(s) /\ IsLowSurrogate(s[k + 1])
    THEN EncodeComponentFrom(s, k + 2,
           acc \o Utf8Escapes(PairCodePoint(s[k], s[k + 1])))
  ELSE Thrown

encodeURIComponentInstead(s) == EncodeComponentFrom(s, 1, << >>)

\* encodeURI(s): every code point escaped except the reserved and unescaped sets
encodeURI(s) == EncodeFrom(s, 1, << >>)

\* ---------------------------------------------------------- ChineseS2T.t2s
\* The Traditional -> Simplified table of the library, on the characters the
\* model uses: U+9801 -> U+9875, U+9AD4 -> U+4F53; every other one is kept.
T2SChar(c) == IF c = 38913 THEN 39029 ELSE IF c = 39636 THEN 20307 ELSE c

\* ChineseS2T.t2s(s) when the library is loaded and its call returns
t2s(s) == [i \in 1 .. Len(s) |-> T2SChar(s[i])]

\* ------------------------------------------------------------- convertUrl
\* The outcome of a call: raised = TRUE when an exception leaves the function.
Returned(v) == [raised |-> FALSE, val |-> v]
Raised == [raised |-> TRUE, val |-> Undefined]

\* lines 171-172 on the decoded string: ChineseS2T.t2s, then encodeURI.
\* libDefined = the library symbol is defined, libOk = its t2s returns
\* rather than throws.
TransformEncode(decoded, libDefined, libOk) ==
  IF decoded.err \/ ~libDefined \/ ~libOk THEN Thrown
  ELSE encodeURI(t2s(decoded.s))

\* the try block (lines 170-172)
TryBlock(s, libDefined, libOk) ==
  TransformEncode(decodeURI(s), libDefined, libOk)

\* Mutant: the catch block has no return statement, so a failure yields undefined.
TryCatchReturnsNothing(r, url) ==
  IF r.err THEN Returned(Undefined) ELSE Returned(StrV(r.s))

\* Mutant: no try/catch around the three steps, so a failure leaves convertUrl.
TryCatchRethrows(r, url) == IF r.err THEN Raised ELSE Returned(StrV(r.s))

\* try { return <r> } catch(e) { return url } (lines 169-175)
TryCatch(r, url) == IF r.err THEN Returned(url) ELSE Returned(StrV(r.s))

convertUrl(url, libDefined, libOk) ==
  IF Falsy(url) \/ ~IsString(url) THEN Returned(url)
  ELSE TryCatch(TryBlock(url.s, libDefined, libOk), url)

\* how many times a call convertUrl(url) invokes ChineseS2T.t2s: none when the
\* guard returns (line 168) or decodeURI throws (line 170), else once (line 171)
T2SCalls(url, libDefined) ==
  IF Falsy(url) \/ ~IsString(url) THEN 0
  ELSE IF decodeURI(url.s).err \/ ~libDefined THEN 0
  ELSE 1

\* --------------------------------------------------------- dispatch points
DP == {"fetch", "open", "pushState", "replaceState"}

\* the 1-based position of the argument each wrapper rewrites
Pos(dp) == IF dp = "fetch" THEN 1 ELSE IF dp = "open" THEN 2 ELSE 3

\* the i-th argument of a call, undefined when the caller passed fewer
Arg(args, i) == IF i <= Len(args) THEN args[i] ELSE Undefined

\* What a wrapper does with a call: it delegates to its original with the
\* argument list args, or (delegates = FALSE) it ends without calling it.
Forward(args) == [delegates |-> TRUE, args |-> args]
NoForward == [delegates |-> FALSE, args |-> << >>]

\* args[0] = <c>, with c the outcome of convertUrl (line 182)
AssignFirst(args, c) ==
  IF c.raised THEN NoForward ELSE Forward([args EXCEPT ![1] = c.val])

\* Mutant: the delegation sits inside the if, so a call whose first argument
\* is not a string is swallowed.
fetchWrapperSwallows(args, libDefined, libOk) ==
  IF Len(args) >= 1 /\ IsString(args[1])
  THEN AssignFirst(args, convertUrl(args[1], libDefined, libOk))
  ELSE NoForward

\* window.fetch = async function(...args) { ... originalFetch.apply(this, args) }
fetchWrapper(args, libDefined, libOk) ==
  IF Len(args) >= 1 /\ IsString(args[1])
  THEN AssignFirst(args, convertUrl(args[1], libDefined, libOk))
  ELSE Forward(args)

\* url = <c>; originalOpen.call(this, method, url, ...rest) (lines 191-193)
OpenCall(args, c) ==
  IF c.raised THEN NoForward
  ELSE Forward(<< Arg(args, 1), c.val >> \o SubSeq(args, 3, Len(args)))

\* XMLHttpRequest.prototype.open = function(method, url, ...rest)
openWrapper(args, libDefined, libOk) ==
  IF IsString(Arg(args, 2))
  THEN OpenCall(args, convertUrl(Arg(args, 2), libDefined, libOk))
  ELSE OpenCall(args, Returned(Arg(args, 2)))

\* url = <c>; originalPushState.call(this, state, unused, url) (lines 200-202)
PushStateCall(args, c) ==
  IF c.raised THEN NoForward
  ELSE Forward(<< Arg(args, 1), Arg(args, 2), c.val >>)

\* Mutant: the wrapper forwards url without converting it.
pushStateWrapperKeepsUrl(args, libDefined, libOk) ==
  PushStateCall(args, Returned(Arg(args, 3)))

\* history.pushState = function(state, unused, url)
pushStateWrapper(args, libDefined, libOk) ==
  IF IsString(Arg(args, 3))
  THEN PushStateCall(args, convertUrl(Arg(args, 3), libDefined, libOk))
  ELSE PushStateCall(args, Returned(Arg(args, 3)))

\* url = <c>; originalReplaceState.call(this, state, unused, url) (lines 208-210)
ReplaceStateCall(args, c) ==
  IF c.raised THEN NoForward
  ELSE Forward(<< Arg(args, 1), Arg(args, 2), c.val >>)

\* history.replaceState = function(state, unused, url)
replaceStateWrapper(args, libDefined, libOk) ==
  IF IsString(Arg(args, 3))
  THEN ReplaceStateCall(args, convertUrl(Arg(args, 3), libDefined, libOk))
  ELSE ReplaceStateCall(args, Returned(Arg(args, 3)))

Wrapper(dp, args, libDefined, libOk) ==
  IF dp = "fetch" THEN fetchWrapper(args, libDefined, libOk)
  ELSE IF dp = "open" THEN openWrapper(args, libDefined, libOk)
  ELSE IF dp = "pushState" THEN pushStateWrapper(args, libDefined, libOk)
  ELSE replaceStateWrapper(args, libDefined, libOk)

\* A function bound to a dispatch point is 0, the browser's implementation, or
\* n > 0, the wrapper made by the n-th run of the installer body, which closes
\* over orig[n] (the const original... of that run).
\* Invoke is the call of function fn with args: recv = the arguments the
\* browser's implementation receives, natives = how many times it is invoked,
\* layers = how many wrappers the call passes through.
\* handed = the values the wrappers passed to convertUrl, t2sCalls = how many
\* times ChineseS2T.t2s was invoked during the call.
RECURSIVE Invoke(_, _, _, _, _, _)
\* one more wrapper layer around the call r
Layered(r) == [r EXCEPT !.layers = @ + 1]

\* the values the wrapper of dp passes to convertUrl when called with args:
\* the argument at its rewritten position if typeof finds it a string
\* (lines 181-182, 190-191, 199-200, 207-208)
ConvertUrlInputs(dp, args) ==
  IF IsString(Arg(args, Pos(dp))) THEN { Arg(args, Pos(dp)) } ELSE { }

\* the wrapper fn of dp, having computed f, delegates to its original
Delegate(dp, fn, orig, f, libDefined, libOk) ==
  IF ~f.delegates
  THEN [recv |-> << >>, natives |-> 0, layers |-> 1, handed |-> { },
        t2sCalls |-> 0]
  ELSE Layered(Invoke(dp, orig[fn], orig, f.args, libDefined, libOk))

\* the call r of a wrapper that passed the values h to convertUrl
Traced(r, h, libDefined) ==
  [r EXCEPT !.handed = @ \cup h,
            !.t2sCalls = @ + Cardinality({ v \in h : T2SCalls(v, libDefined) = 1 })]

Invoke(dp, fn, orig, args, libDefined, libOk) ==
  IF fn = 0
  THEN [recv |-> args, natives |-> 1, layers |-> 0, handed |-> { },
        t2sCalls |-> 0]
  ELSE Traced(Delegate(dp, fn, orig, Wrapper(dp, args, libDefined, libOk),
                       libDefined, libOk),
              ConvertUrlInputs(dp, args), libDefined)

\* ------------------------------------------------------------ call outcomes
\* How a call ends for its caller: how = "return" or "throw" (synchronously, at
\* the call); val = the original's own non-thenable result ("result"), its own
\* exception ("error"), the promise the original itself returned ("promise"),
\* or a new promise made by an async function ("new promise"); settles = how a
\* promise settles ("none" when val is no promise).
OriginalReturns == [how |-> "return", val |-> "result", settles |-> "none"]
OriginalThrows == [how |-> "throw", val |-> "error", settles |-> "none"]

\* the ways a promise may end: fulfilled, rejected, or never settled
Settlements == {"fulfilled", "rejected", "pending"}

\* the original returns a promise of its own, as the browser's fetch does
OriginalReturnsPromise(s) ==
  [how |-> "return", val |-> "promise", settles |-> s]

\* the ways the captured original may end a call
NativeOutcomes ==
  {OriginalReturns, OriginalThrows}
    \cup { OriginalReturnsPromise(s) : s \in Settlements }

\* async function(...) { return <o> }: the caller always gets a new promise,
\* rejected when the body throws, following the returned promise when the body
\* returns one, and fulfilled with the returned value otherwise
AsyncFunction(o) ==
  [how |-> "return", val |-> "new promise",
   settles |-> IF o.how = "throw" THEN "rejected"
               ELSE IF o.val \in {"promise", "new promise"} THEN o.settles
               ELSE "fulfilled"]

\* return original....(...) in the wrapper of dp, whose original ended as o:
\* the fetch wrapper is an async function (line 180), the other three are
\* plain functions (lines 189, 198, 206)
WrapperReturn(dp, o) == IF dp = "fetch" THEN AsyncFunction(o) ELSE o

\* what the caller of a chain of n wrappers of dp observes
RECURSIVE ThroughLayers(_, _, _)
ThroughLayers(dp, n, o) ==
  IF n = 0 THEN o ELSE WrapperReturn(dp, ThroughLayers(dp, n - 1, o))

\* ------------------------------------------------------------------ inputs
\* "a"  "/"  "%"  "%2F"  "%41"  U+9801  "%E9%A0%81"  "%E9"
\* U+D83D (a lone surrogate)  "["
Segments ==
  { << 97 >>, << 47 >>, << 37 >>, << 37, 50, 70 >>, << 37, 52, 49 >>,
    << 38913 >>, << 37, 69, 57, 37, 65, 48, 37, 56, 49 >>, << 37, 69, 57 >>,
    << 55357 >>, << 91 >> }

RECURSIVE Concats(_)
Concats(n) ==
  IF n = 0 THEN { << >> }
  ELSE LET p == Concats(n - 1) IN p \cup { a \o b : a \in p, b \in Segments }

\* the values the application passes at the rewritten position
UrlValues ==
  { StrV(s) : s \in Concats(MaxSegs) } \cup { Undefined, Null, Zero, RequestObj }

\* the value the application passes at every other position i: the string
\* U+9801 followed by the digit i, which the transform would change
Filler(i) == StrV(<< 38913, 48 + i >>)

\* ------------------------------------------------------------------- state
VARIABLES
  urlArg,        \* the value the application passes at the rewritten position
  arity,         \* the number of arguments of the application's calls
  t2sOk,         \* ChineseS2T.t2s returns (TRUE) or throws (FALSE) on this page
  lib,           \* typeof ChineseS2T !== 'undefined'
  pc,            \* "start" before line 216 runs, "polling" after
  timers,        \* pending setTimeout(initS2T, 100) callbacks
  failedChecks,  \* gate checks that found the library absent (saturating)
  global,        \* the function bound to each dispatch point
  original,      \* original[dp][n]: the original captured by wrapper n of dp
  installs,      \* runs of the installer body (lines 166-213)
  logs,          \* readiness lines written by console.log (line 213)
  lastCall       \* the application's latest call of a dispatch point

vars == << urlArg, arity, t2sOk, lib, pc, timers, failedChecks, global,
           original, installs, logs, lastCall >>

inputs == << urlArg, arity, t2sOk >>
patchState == << global, original, installs, logs >>

NoCall ==
  [made |-> FALSE, dp |-> "none", args |-> << >>, recv |-> << >>,
   natives |-> 0, layers |-> 0, installsBefore |-> 0,
   observed |-> [o \in NativeOutcomes |-> o], handed |-> { }, t2sCalls |-> 0]

Init ==
  /\ urlArg \in UrlValues
  /\ arity \in 0 .. MaxArity
  /\ t2sOk \in BOOLEAN
  /\ lib = FALSE
  /\ pc = "start"
  /\ timers = 0
  /\ failedChecks = 0
  /\ global = [dp \in DP |-> 0]
  /\ original = [dp \in DP |-> << >>]
  /\ installs = 0
  /\ logs = 0
  /\ lastCall = NoCall

\* ----------------------------------------------------------------- actions
\* The script of line 157 finishes loading and defines ChineseS2T.
LibraryLoads ==
  /\ ~lib
  /\ lib' = TRUE
  /\ UNCHANGED << inputs, pc, timers, failedChecks, patchState, lastCall >>

\* Mutant: the gate never finds the library absent, so the installer runs
\* at the first check whatever the page has loaded.
LibraryNeverUndefined(libDefined) == FALSE

\* typeof ChineseS2T === 'undefined' (line 161)
LibraryUndefined(libDefined) == ~libDefined

\* Mutant: the installer stops after the two network patches, leaving the
\* two history entry points unpatched.
InstallGlobalNetworkOnly(g, o) ==
  [dp \in DP |-> IF dp \in {"fetch", "open"} THEN Len(o[dp]) + 1 ELSE g[dp]]

\* lines 179-211: the four assignments of a wrapper to its dispatch point
InstallGlobal(g, o) == [dp \in DP |-> Len(o[dp]) + 1]

\* lines 179, 188, 197, 205: const original... = the function bound now
InstallOriginal(g, o) == [dp \in DP |-> Append(o[dp], g[dp])]

\* Mutant: the check is rescheduled on every run (as a setInterval would),
\* also after the run that installs.
initS2TKeepsPolling(t) ==
  IF LibraryUndefined(lib)
  THEN /\ timers' = t + 1
       /\ failedChecks' = IF failedChecks < MaxChecks THEN failedChecks + 1
                          ELSE failedChecks
       /\ UNCHANGED patchState
  ELSE /\ global' = InstallGlobal(global, original)
       /\ original' = InstallOriginal(global, original)
       /\ installs' = installs + 1
       /\ logs' = logs + 1
       /\ timers' = t + 1
       /\ UNCHANGED failedChecks

\* Mutant: the gate has a retry limit: after MaxChecks failed checks it stops
\* rescheduling itself.
initS2TGivesUp(t) ==
  IF LibraryUndefined(lib)
  THEN /\ timers' = IF failedChecks < MaxChecks THEN t + 1 ELSE t
       /\ failedChecks' = IF failedChecks < MaxChecks THEN failedChecks + 1
                          ELSE failedChecks
       /\ UNCHANGED patchState
  ELSE /\ global' = InstallGlobal(global, original)
       /\ original' = InstallOriginal(global, original)
       /\ installs' = installs + 1
       /\ logs' = logs + 1
       /\ timers' = t
       /\ UNCHANGED failedChecks

\* Mutant: a failed check schedules two further checks (the reschedule is
\* written twice, or setInterval is started in each failed check).
initS2TSchedulesTwice(t) ==
  IF LibraryUndefined(lib)
  THEN /\ timers' = t + 2
       /\ failedChecks' = IF failedChecks < MaxChecks THEN failedChecks + 1
                          ELSE failedChecks
       /\ UNCHANGED patchState
  ELSE /\ global' = InstallGlobal(global, original)
       /\ original' = InstallOriginal(global, original)
       /\ installs' = installs + 1
       /\ logs' = logs + 1
       /\ timers' = t
       /\ UNCHANGED failedChecks

\* initS2T(), called with t timers pending
initS2T(t) ==
  IF LibraryUndefined(lib)
  THEN /\ timers' = t + 1
       /\ failedChecks' = IF failedChecks < MaxChecks THEN failedChecks + 1
                          ELSE failedChecks
       /\ UNCHANGED patchState
  ELSE /\ global' = InstallGlobal(global, original)
       /\ original' = InstallOriginal(global, original)
       /\ installs' = installs + 1
       /\ logs' = logs + 1
       /\ timers' = t
       /\ UNCHANGED failedChecks

\* line 216: the script's own call of initS2T
Start ==
  /\ pc = "start"
  /\ pc' = "polling"
  /\ initS2T(timers)
  /\ UNCHANGED << inputs, lib, lastCall >>

\* a pending timer fires and calls initS2T (line 162)
TimerFires ==
  /\ timers > 0
  /\ initS2T(timers - 1)
  /\ UNCHANGED << inputs, lib, pc, lastCall >>

\* the arguments of the application's call of dp
CallArgs(dp) == [i \in 1 .. arity |-> IF i = Pos(dp) THEN urlArg ELSE Filler(i)]

\* the record of a call of dp with args that went through the chain as r;
\* observed[o] is how the call ends for the application when the browser's
\* implementation ends it as o
CallRecord(dp, args, r, n) ==
  [made |-> TRUE, dp |-> dp, args |-> args, recv |-> r.recv,
   natives |-> r.natives, layers |-> r.layers, installsBefore |-> n,
   observed |-> [o \in NativeOutcomes |-> ThroughLayers(dp, r.layers, o)],
   handed |-> r.handed, t2sCalls |-> r.t2sCalls]

\* The application calls the function bound to dp.
AppCall(dp) ==
  /\ lastCall' = CallRecord(dp, CallArgs(dp),
                   Invoke(dp, global[dp], original[dp], CallArgs(dp), lib, t2sOk),
                   installs)
  /\ UNCHANGED << inputs, lib, pc, timers, failedChecks, patchState >>

CallFetch == AppCall("fetch")
CallOpen == AppCall("open")
CallPushState == AppCall("pushState")
CallReplaceState == AppCall("replaceState")

Next ==
  \/ LibraryLoads
  \/ Start
  \/ TimerFires
  \/ CallFetch
  \/ CallOpen
  \/ CallPushState
  \/ CallReplaceState

Spec == Init /\ [][Next]_vars

\* The page under the browser's scheduling: the inline script runs (line 216)
\* and a pending timer eventually fires. The gate does not read the arguments
\* of the application's calls, so this specification draws the URL argument
\* from the single segments only.
LiveInit == Init /\ urlArg \in { StrV(s) : s \in Concats(1) } \cup { Null, RequestObj }

SpecLive ==
  /\ LiveInit
  /\ [][Next]_vars
  /\ WF_vars(Start)
  /\ WF_vars(TimerFires)

\* The success path of the gate run again by hand (the simulation of the
\* "single installation" test): initS2T called once more with the library
\* present, after the installer body has already run.
RerunInitS2T ==
  /\ lib
  /\ installs >= 1
  /\ installs <= MaxReruns
  /\ initS2T(timers)
  /\ UNCHANGED << inputs, lib, pc, lastCall >>

NextRerun == Next \/ RerunInitS2T

SpecRerun == Init /\ [][NextRerun]_vars

\* ------------------------------------------------------------------ claims
\* the argument of the latest call at the position its wrapper rewrites
UrlOf(c) == Arg(c.args, Pos(c.dp))

\* the argument the browser's implementation received at that position
RecvUrlOf(c) == Arg(c.recv, Pos(c.dp))

\* the latest call was made through an installed wrapper
Wrapped(c) == c.made /\ c.layers >= 1

\* C1: every call made through a patched dispatch point invokes the browser's
\* original implementation exactly once, whatever the argument and whether
\* the transform succeeds or fails.
C1_DelegatesExactlyOnce == Wrapped(lastCall) => lastCall.natives = 1

\* a patched fetch/open/pushState/replaceState call with a string URL whose
\* transform failed in the library, delegated once
C1_Witness ==
  /\ Wrapped(lastCall)
  /\ IsString(UrlOf(lastCall))
  /\ UrlOf(lastCall).s # << >>
  /\ ~t2sOk
  /\ lastCall.natives = 1

\* C2: through a patched wrapper, a call whose argument at the rewritten
\* position is not a string reaches the original with the caller's argument
\* list: same length, same values, same order.
C2_NonStringSameArguments ==
  (Wrapped(lastCall) /\ ~IsString(UrlOf(lastCall)))
    => lastCall.recv = lastCall.args

\* C3: through a patched wrapper, a call whose argument at the rewritten
\* position is a string u reaches the original with convertUrl(u) there and
\* every other argument as the caller passed it.
C3_StringConvertedOthersKept ==
  (Wrapped(lastCall) /\ IsString(UrlOf(lastCall)))
    => lastCall.recv =
         [lastCall.args EXCEPT
            ![Pos(lastCall.dp)] = convertUrl(@, TRUE, t2sOk).val]

\* C4: while the library symbol has not appeared, the four dispatch points
\* are bound to the browser's implementations and every call reaches them
\* with the caller's arguments.
C4_NoLibraryNoPatch ==
  ~lib => /\ \A dp \in DP : global[dp] = 0
          /\ lastCall.made => /\ lastCall.layers = 0
                              /\ lastCall.natives = 1
                              /\ lastCall.recv = lastCall.args

\* the library is absent after repeated failed checks and a call with a
\* convertible string URL went straight to the browser
C4_Witness ==
  /\ ~lib
  /\ failedChecks >= 2
  /\ lastCall.made
  /\ IsString(UrlOf(lastCall))
  /\ convertUrl(UrlOf(lastCall), TRUE, TRUE).val # UrlOf(lastCall)
  /\ lastCall.recv = lastCall.args

\* C5: the installer body runs at most once, writes the readiness line once
\* with it, and once it has run no gate check is pending or can start.
C5_InstallsAtMostOnce ==
  /\ installs <= 1
  /\ logs = installs
  /\ installs = 1 => (timers = 0 /\ pc = "polling")

\* the installer has run once, after at least one failed check
C5_Witness == installs = 1 /\ logs = 1 /\ failedChecks >= 1 /\ timers = 0

\* C6: after the success path has run twice, one external call passes through
\* one wrapper layer and invokes the browser's implementation once.
C6_NoDoubleWrap ==
  (lastCall.made /\ lastCall.installsBefore >= 2)
    => (lastCall.layers = 1 /\ lastCall.natives = 1)

\* C7: in every state between tasks, all four dispatch points are unpatched
\* or all four are patched.
C7_AllOrNonePatched ==
  \/ \A dp \in DP : global[dp] = 0
  \/ \A dp \in DP : global[dp] # 0

\* all four are patched and the application has called one of them since
C7_Witness ==
  /\ \A dp \in DP : global[dp] # 0
  /\ lastCall.made
  /\ lastCall.installsBefore = 1

\* C8: a call made before the installer ran goes to the browser's
\* implementation with the caller's arguments; a call made after goes through
\* the wrapper, and a string URL is converted before the original sees it.
C8_BeforePristineAfterWrapped ==
  lastCall.made =>
    IF lastCall.installsBefore = 0
    THEN lastCall.layers = 0 /\ lastCall.recv = lastCall.args
    ELSE /\ lastCall.layers = 1
         /\ IsString(UrlOf(lastCall))
              => RecvUrlOf(lastCall) = convertUrl(UrlOf(lastCall), TRUE, t2sOk).val

\* a call made after installation whose string URL reached the original changed
C8_Witness ==
  /\ lastCall.made
  /\ lastCall.installsBefore = 1
  /\ IsString(UrlOf(lastCall))
  /\ RecvUrlOf(lastCall) # UrlOf(lastCall)
  /\ RecvUrlOf(lastCall) = convertUrl(UrlOf(lastCall), TRUE, TRUE).val

\* C9: when decoding, the transform or re-encoding raises for a string u,
\* convertUrl returns u itself, and a wrapper called with u delegates once to
\* the original with u at the rewritten position.
C9_FailureFallsBackToInput ==
  (IsString(urlArg) /\ urlArg.s # << >> /\ TryBlock(urlArg.s, lib, t2sOk).err)
    => /\ convertUrl(urlArg, lib, t2sOk) = Returned(urlArg)
       /\ (Wrapped(lastCall) /\ arity >= Pos(lastCall.dp))
            => (lastCall.natives = 1 /\ RecvUrlOf(lastCall) = urlArg)

\* a wrapped call whose string URL is malformed percent-encoding reached the
\* original unchanged
C9_Witness ==
  /\ Wrapped(lastCall)
  /\ IsString(UrlOf(lastCall))
  /\ UrlOf(lastCall).s # << >>
  /\ t2sOk
  /\ decodeURI(UrlOf(lastCall).s).err
  /\ lastCall.natives = 1
  /\ RecvUrlOf(lastCall) = UrlOf(lastCall)

\* C10: convertUrl never raises, it returns a string for every string input,
\* and a wrapper hands the original a string wherever the caller passed one.
C10_NeverRaisesReturnsString ==
  /\ ~convertUrl(urlArg, lib, t2sOk).raised
  /\ IsString(urlArg) => IsString(convertUrl(urlArg, lib, t2sOk).val)
  /\ (Wrapped(lastCall) /\ IsString(UrlOf(lastCall)))
       => (lastCall.natives = 1 /\ IsString(RecvUrlOf(lastCall)))

\* a wrapped call whose string URL decodes but cannot be re-encoded (it holds
\* a lone surrogate) reached the original as a string
C10_Witness ==
  /\ Wrapped(lastCall)
  /\ IsString(UrlOf(lastCall))
  /\ t2sOk
  /\ ~decodeURI(UrlOf(lastCall).s).err
  /\ encodeURI(t2s(decodeURI(UrlOf(lastCall).s).s)).err
  /\ IsString(RecvUrlOf(lastCall))

\* C11: each wrapper is invisible on the error path: what the original returns
\* or raises is what the caller of the wrapper observes, in the same way (the
\* same returned value, or the same exception raised synchronously at the call).
C11_OutcomeUnchanged ==
  (Wrapped(lastCall) /\ lastCall.natives = 1)
    => \A o \in NativeOutcomes : lastCall.observed[o] = o

\* C12: while the library is absent every gate check schedules exactly one
\* further check, without limit; so under fair timer scheduling, once the
\* library symbol is present all four dispatch points are eventually patched,
\* however many checks failed before.
C12_EventuallyPatched ==
  /\ [][((Start \/ TimerFires) /\ ~lib) => (timers' = 1 /\ UNCHANGED patchState)]_vars
  /\ lib ~> (\A dp \in DP : global[dp] # 0)

\* the library appeared after the counter of failed checks reached its cap and
\* the four dispatch points are patched
C12_Witness ==
  /\ lib
  /\ failedChecks = MaxChecks
  /\ \A dp \in DP : global[dp] # 0

\* C13: each dispatch point's Unpatched -> Patched transition is irreversible
\* and each captured original is fixed: once a dispatch point is bound to its
\* wrapper no later step rebinds it, and the original a wrapper delegates to
\* never changes and is the browser's implementation, never a wrapper.
C13_PatchIrreversible ==
  /\ [][\A dp \in DP :
          /\ global[dp] # 0 => global'[dp] = global[dp]
          /\ \A n \in DOMAIN original[dp] :
               n \in DOMAIN original'[dp] /\ original'[dp][n] = original[dp][n]]_vars
  /\ [](\A dp \in DP : \A n \in DOMAIN original[dp] : original[dp][n] = 0)

\* the four dispatch points are patched, each wrapper holds the browser's
\* implementation, and the application has called through a wrapper since
C13_Witness ==
  /\ \A dp \in DP : global[dp] = 1 /\ original[dp] = << 0 >>
  /\ Wrapped(lastCall)
  /\ failedChecks >= 1

\* the string u decodes and the transform leaves its decoded text as it is
TransformIsIdentityOn(u) ==
  /\ ~decodeURI(u.s).err
  /\ t2s(decodeURI(u.s).s) = decodeURI(u.s).s

\* C14: for a string URL whose decoded text the transform does not change, the
\* wrapper forwards to the original exactly the string the caller passed
\* (escapes of reserved characters and literal characters that encodeURI
\* escapes included).
C14_UntransformedUrlKept ==
  (Wrapped(lastCall) /\ IsString(UrlOf(lastCall)) /\ t2sOk
     /\ TransformIsIdentityOn(UrlOf(lastCall)))
    => RecvUrlOf(lastCall) = UrlOf(lastCall)

\* the transform applied twice to the decoded text of u gives what it gives
\* applied once (u does not decode: nothing to transform)
TransformIdempotentOn(u) ==
  decodeURI(u.s).err
    \/ t2s(t2s(decodeURI(u.s).s)) = t2s(decodeURI(u.s).s)

\* C15: convertUrl is idempotent whenever the transform is: converting a
\* converted URL again changes nothing, so a URL a wrapper has rewritten is
\* not changed by a later pass through the layer.
C15_ConvertUrlIdempotent ==
  /\ (IsString(urlArg) /\ TransformIdempotentOn(urlArg))
       => convertUrl(convertUrl(urlArg, TRUE, t2sOk).val, TRUE, t2sOk)
            = convertUrl(urlArg, TRUE, t2sOk)
  /\ (Wrapped(lastCall) /\ IsString(UrlOf(lastCall))
        /\ TransformIdempotentOn(UrlOf(lastCall)))
       => convertUrl(RecvUrlOf(lastCall), TRUE, t2sOk).val = RecvUrlOf(lastCall)

\* a wrapper rewrote a string URL and converting the rewritten URL again
\* gives the rewritten URL
C15_Witness ==
  /\ Wrapped(lastCall)
  /\ IsString(UrlOf(lastCall))
  /\ RecvUrlOf(lastCall) # UrlOf(lastCall)
  /\ t2s(decodeURI(UrlOf(lastCall).s).s) # decodeURI(UrlOf(lastCall).s).s
  /\ convertUrl(RecvUrlOf(lastCall), TRUE, t2sOk).val = RecvUrlOf(lastCall)

\* C16: at most one gate-check timer is pending in every state: exactly one
\* while the gate is polling and has not installed, none before the script's
\* own call and none once the installer has run.
C16_AtMostOneTimer ==
  /\ timers <= 1
  /\ pc = "start" => timers = 0
  /\ (pc = "polling" /\ installs = 0) => timers = 1
  /\ installs >= 1 => timers = 0

\* one timer is pending after the counter of failed checks reached its cap
C16_Witness == timers = 1 /\ failedChecks = MaxChecks /\ installs = 0

\* C17: the guard of convertUrl returns every input that is not a string or
\* is empty without decoding or transforming it, the wrappers hand convertUrl
\* strings only, and an empty-string URL at a rewritten position reaches the
\* original as the same empty string without the library being invoked.
C17_GuardPassesThrough ==
  /\ (Falsy(urlArg) \/ ~IsString(urlArg))
       => /\ convertUrl(urlArg, lib, t2sOk) = Returned(urlArg)
          /\ T2SCalls(urlArg, lib) = 0
  /\ Wrapped(lastCall)
       => /\ \A v \in lastCall.handed : IsString(v)
          /\ ~IsString(UrlOf(lastCall)) => lastCall.t2sCalls = 0
          /\ UrlOf(lastCall) = StrV(<< >>)
               => /\ RecvUrlOf(lastCall) = StrV(<< >>)
                  /\ lastCall.natives = 1
                  /\ lastCall.t2sCalls = 0

\* a wrapper was called with the empty string at its rewritten position,
\* handed it to convertUrl, and the original received the empty string
C17_Witness ==
  /\ Wrapped(lastCall)
  /\ arity >= Pos(lastCall.dp)
  /\ UrlOf(lastCall) = StrV(<< >>)
  /\ lastCall.handed = { StrV(<< >>) }
  /\ RecvUrlOf(lastCall) = StrV(<< >>)
  /\ lastCall.t2sCalls = 0
====
